---- MODULE Spec2Model ----
(***************************************************************************)
(* Model of the token price monitor bot (src/bot.py): the registration     *)
(* handler TokenMonitorBot.handle_message, the per-symbol monitor loop     *)
(* TokenMonitorBot.monitor_token with its threshold tracker, the           *)
(* monitoring.json configuration store and the monitoring_tasks registry,  *)
(* and of the price resolution (src/price_fetcher.py): PriceFetcher's      *)
(* get_price with its chain of sources and the extraction of a price from  *)
(* their responses.                                                        *)
(*                                                                         *)
(* The event loop is asyncio's: a coroutine runs without interruption from *)
(* one await to the next, so every action below is the code between two    *)
(* awaits.  Handlers are run one at a time (the Application is built       *)
(* without concurrent updates); monitor tasks interleave with them at      *)
(* their awaits.  monitoring.json is re-read from disk on every use, so an *)
(* edit made outside the process is seen by the next read.                 *)
(*                                                                         *)
(* Left out, as nothing modelled reads them: the chat_id of an entry (it   *)
(* is passed unchanged to every send of the loop it started) and the       *)
(* self.last_prices dictionary (written by the loop, never read).  A send  *)
(* counts as sent when bot.send_message is called; it then returns, raises *)
(* or is cancelled.                                                        *)
(***************************************************************************)
EXTENDS Integers, Sequences, FiniteSets, TLC

\* Bounds of the model.
MaxBand == 3
MaxReg == 2

\* Python's None for an optional price (prices are never negative).
None == -1

\* token_mapping.json: the symbols of the token registry, and one that is not in it.
Registry == {"kori", "abc"}
TokenNames == Registry \cup {"zzz"}

\* Threshold values a user (or an editor of monitoring.json) may give.
BandVals == 1..MaxBand
\* Quotes get_price may return: below, at, inside, at and above any band.
Prices == 0..(MaxBand + 1)
\* The quotes and the thresholds used when several loops and the handler run
\* together: a quote below and one above every band; two bands with low < high,
\* and bands with low = high and low > high.
SysPrices == {0, MaxBand + 1}
SysLows == {1, 2, MaxBand}
SysHighs == {1, MaxBand}

TaskIds == 1..MaxReg

VARIABLES
    config,            \* monitoring.json: symbol -> entry
    monitoring_tasks,  \* self.monitoring_tasks: symbol -> task id (0: no key)
    loop,              \* the monitor_token tasks ever created, by id
    handler,           \* the handle_message call in flight
    nreg,              \* accepted registrations so far (the id of the next task)
    lastReg,           \* symbol -> the latest accepted registration for it
    watch,             \* whether the loops' samples and decisions are recorded
    fetch              \* the PriceFetcher.get_price call being followed

vars == <<config, monitoring_tasks, loop, handler, nreg, lastReg, watch, fetch>>

----------------------------------------------------------------------------
\* The configuration store.

NoEntry == [present |-> FALSE, low |-> None, high |-> None]
Entry(low, high) == [present |-> TRUE, low |-> low, high |-> high]

\* dict.get(key, 0) on an entry: a missing entry or field reads as 0.
GetField(v) == IF v = None THEN 0 ELSE v

----------------------------------------------------------------------------
\* The monitor loop's local state.

\* The scenario of samples [above, above, inside, below, below, inside, above].
Scenario == <<"above", "above", "inside", "below", "below", "inside", "above">>

Classify(p, low, high) ==
    IF p > high THEN "above"
    ELSE IF p < low THEN "below"
    ELSE IF p > low /\ p < high THEN "inside"
    ELSE "edge"

\* A slot of the task table no task has taken yet.
NoLoop ==
    [sym |-> "", pc |-> "none", end |-> "",
     low_threshold |-> 0, high_threshold |-> 0,
     price |-> None, last_price |-> None,
     low_notified |-> FALSE, high_notified |-> FALSE,
     price_displayed |-> FALSE,
     prev |-> None, cur |-> None, dec |-> "none", scen |-> 0, fired |-> {},
     steady |-> TRUE, fresh |-> FALSE, skipped |-> FALSE]

\* A variant whose task takes the acknowledgment for sent already.
NewLoop_AckKept(sym) ==
    [NoLoop EXCEPT !.sym = sym, !.pc = "new", !.price_displayed = TRUE]

\* asyncio.create_task(self.monitor_token(...)): a task that has not run yet.
NewLoop(sym) == [NoLoop EXCEPT !.sym = sym, !.pc = "new"]

\* A finished task: its locals are gone.
Done(l, how) == [NoLoop EXCEPT !.sym = l.sym, !.pc = "done", !.end = how]

----------------------------------------------------------------------------
\* The threshold tracker (the body of the loop for one successful quote).

\* last_price = price; self.last_prices[token_name] = price; then the delay.
Finish(l) == [l EXCEPT !.last_price = l.price, !.price = None, !.pc = "sleep"]

\* A variant that re-arms no latch inside the band.
InsideBand_NoClear(l) == l

\* The branch for a price strictly between the thresholds.
InsideBand(l) ==
    IF l.last_price # None
    THEN IF l.last_price <= l.low_threshold /\ l.price > l.low_threshold
         THEN [l EXCEPT !.low_notified = FALSE]
         ELSE IF l.last_price >= l.high_threshold /\ l.price < l.high_threshold
              THEN [l EXCEPT !.high_notified = FALSE]
              ELSE l
    ELSE l

\* A variant that notifies on a crossing only, never on the latch being clear.
FireLow_CrossingOnly(l) ==
    l.last_price # None /\ l.last_price > l.low_threshold

\* A variant without the debounce: every sample at or above high notifies.
FireHigh_Always(l) == TRUE

\* Whether the "reached low" / "reached high" message is to be sent.
FireLow(l) ==
    ~l.low_notified \/ (l.last_price # None /\ l.last_price > l.low_threshold)

FireHigh(l) ==
    ~l.high_notified \/ (l.last_price # None /\ l.last_price < l.high_threshold)

\* "Check thresholds": up to the await of a send, or to the delay.
Evaluate(l) ==
    IF l.price <= l.low_threshold
    THEN IF FireLow(l) THEN [l EXCEPT !.pc = "low_send"] ELSE Finish(l)
    ELSE IF l.price >= l.high_threshold
         THEN IF FireHigh(l) THEN [l EXCEPT !.pc = "high_send"] ELSE Finish(l)
         ELSE Finish(InsideBand(l))

\* A variant that sets the latch of the message sent and leaves the other one.
AfterNotify_KeepOther(l) ==
    IF l.pc = "low_send"
    THEN Finish([l EXCEPT !.low_notified = TRUE])
    ELSE Finish([l EXCEPT !.high_notified = TRUE])

\* After "await bot.send_message(... reached to low/high price)" has returned.
AfterNotify(l) ==
    IF l.pc = "low_send"
    THEN Finish([l EXCEPT !.low_notified = TRUE, !.high_notified = FALSE])
    ELSE Finish([l EXCEPT !.high_notified = TRUE, !.low_notified = FALSE])

\* A variant that does not record that the "current price" message was sent.
AfterAck_NoFlag(l) == Evaluate([l EXCEPT !.last_price = l.price])

\* After the "current price" message has been sent: the rest of "Display price once".
AfterAck(l) ==
    Evaluate([l EXCEPT !.price_displayed = TRUE, !.last_price = l.price])

\* A variant that forgets the previous price in a pass without a quote.
CycleBody_ForgetOnNoQuote(l, p) ==
    IF p = None
    THEN [l EXCEPT !.last_price = None, !.pc = "sleep"]
    ELSE IF ~l.price_displayed
         THEN [l EXCEPT !.price = p, !.pc = "ack_send"]
         ELSE Evaluate([l EXCEPT !.price = p])

\* One pass of "while True" from get_price to the next await; p is what get_price returned.
CycleBody(l, p) ==
    IF p = None
    THEN [l EXCEPT !.pc = "sleep"]
    ELSE IF ~l.price_displayed
         THEN [l EXCEPT !.price = p, !.pc = "ack_send"]
         ELSE Evaluate([l EXCEPT !.price = p])

\* The start of monitor_token: the thresholds read from the symbol's entry e.
ReadConfig(l, e) ==
    [l EXCEPT !.pc = "top",
              !.low_threshold = GetField(e.low),
              !.high_threshold = GetField(e.high)]

\* A variant that takes the new thresholds and keeps the latches.
Reload_KeepLatches(l, e) ==
    IF ~e.present
    THEN Done(l, "break")
    ELSE [l EXCEPT !.pc = "top",
                   !.low_threshold = GetField(e.low),
                   !.high_threshold = GetField(e.high)]

\* "Reload config in case it was updated", after the delay.
Reload(l, e) ==
    IF ~e.present
    THEN Done(l, "break")
    ELSE LET new_low == GetField(e.low)
             new_high == GetField(e.high)
         IN IF new_low # l.low_threshold \/ new_high # l.high_threshold
            THEN [l EXCEPT !.pc = "top",
                           !.low_notified = FALSE, !.high_notified = FALSE,
                           !.low_threshold = new_low, !.high_threshold = new_high]
            ELSE [l EXCEPT !.pc = "top"]

----------------------------------------------------------------------------
\* Observation of a loop (history only: nothing below is read by the operators above).
\*   cur, prev  the latest and the one but latest successful sample
\*   dec        what the evaluation of cur decided: "low", "high" (a send was
\*              started), "quiet" (none was), "none" (not evaluated yet)
\*   scen       how many samples have followed Scenario since the loop started
\*              under an unchanged band (-1: the samples left it)
\*   fired      the threshold messages started so far, by sample index, while scen >= 0
\*   steady     the band has been the same since the loop started
\*   fresh      a reload changed the band and no sample has been evaluated since
\*   skipped    the cycle in progress got no quote from get_price

\* m is the loop after it took quote p in state l.
SeeSample(l, m, p) ==
    IF ~watch THEN m ELSE
    IF p = None
    THEN [m EXCEPT !.skipped = TRUE]
    ELSE LET k == IF l.scen >= 0 /\ l.scen < Len(Scenario)
                     /\ Classify(p, l.low_threshold, l.high_threshold) = Scenario[l.scen + 1]
                   THEN l.scen + 1
                   ELSE -1
         IN [m EXCEPT !.prev = l.cur, !.cur = p, !.scen = k,
                      !.fired = IF k = -1 THEN {} ELSE @]

\* m is the loop after an evaluation of its sample.
SeeDecision(m) ==
    LET d == IF m.pc = "low_send" THEN "low"
             ELSE IF m.pc = "high_send" THEN "high"
             ELSE "quiet"
    IN IF ~watch THEN m ELSE
       [m EXCEPT !.dec = d, !.fresh = FALSE,
                 !.fired = IF m.scen > 0 /\ d # "quiet"
                           THEN @ \cup {<<m.scen - 1, d>>}
                           ELSE @]

\* m is the loop after the reload in state l.
SeeReload(l, m) ==
    IF ~watch THEN m ELSE
    IF m.pc = "top"
       /\ (m.low_threshold # l.low_threshold \/ m.high_threshold # l.high_threshold)
    THEN [m EXCEPT !.dec = "none", !.scen = -1, !.fired = {},
                   !.steady = FALSE, !.fresh = TRUE, !.skipped = FALSE]
    ELSE IF m.pc = "top" THEN [m EXCEPT !.dec = "none", !.skipped = FALSE] ELSE m

----------------------------------------------------------------------------
\* The steps of a monitor task, each from one await to the next.

SendPcs == {"ack_send", "low_send", "high_send"}

\* A task the event loop may resume in its own code: it exists, has not
\* finished, and no cancellation is pending for it.
Runnable(t) == loop[t].pc \notin {"none", "done", "cancelling"}

\* The first step of the task: the registry and configuration lookups.
StartUp(t) ==
    /\ Runnable(t)
    /\ loop[t].pc = "new"
    /\ loop[t].sym \in Registry
    /\ loop' = [loop EXCEPT ![t] = ReadConfig(loop[t], config[loop[t].sym])]
    /\ UNCHANGED <<config, monitoring_tasks, handler, nreg, lastReg, watch, fetch>>

\* The first step of the task when a lookup before the "try:" raises: the
\* symbol's record in token_mapping.json, as read at that moment, is gone or
\* has no "address" or no "chain" key (handle_message checked the symbol
\* only), or monitoring.json does not hold an object.  The exception leaves
\* monitor_token: the task ends with it, and nothing is sent.
StartUpFails(t) ==
    /\ Runnable(t)
    /\ loop[t].pc = "new"
    /\ loop' = [loop EXCEPT ![t] = Done(loop[t], "crashed")]
    /\ UNCHANGED <<config, monitoring_tasks, handler, nreg, lastReg, watch, fetch>>

\* get_price (synchronous) and what follows it up to the next await.
Cycle(t, p) ==
    /\ Runnable(t)
    /\ loop[t].pc = "top"
    /\ LET m == SeeSample(loop[t], CycleBody(loop[t], p), p)
       IN loop' = [loop EXCEPT ![t] =
                      IF p # None /\ loop[t].price_displayed THEN SeeDecision(m) ELSE m]
    /\ UNCHANGED <<config, monitoring_tasks, handler, nreg, lastReg, watch, fetch>>

\* The "current price" send returned.
AckDone(t) ==
    /\ Runnable(t)
    /\ loop[t].pc = "ack_send"
    /\ loop' = [loop EXCEPT ![t] = SeeDecision(AfterAck(loop[t]))]
    /\ UNCHANGED <<config, monitoring_tasks, handler, nreg, lastReg, watch, fetch>>

\* The "reached to low/high price" send returned.
NotifyDone(t) ==
    /\ Runnable(t)
    /\ loop[t].pc \in {"low_send", "high_send"}
    /\ loop' = [loop EXCEPT ![t] = AfterNotify(loop[t])]
    /\ UNCHANGED <<config, monitoring_tasks, handler, nreg, lastReg, watch, fetch>>

\* bot.send_message raised: "except Exception" prints and awaits the error report.
SendFail(t) ==
    /\ Runnable(t)
    /\ loop[t].pc \in SendPcs
    /\ loop' = [loop EXCEPT ![t] = [Done(loop[t], "") EXCEPT !.pc = "err_send"]]
    /\ UNCHANGED <<config, monitoring_tasks, handler, nreg, lastReg, watch, fetch>>

\* The error report returned or raised ("except: pass"): the task ends.
ErrSendDone(t) ==
    /\ Runnable(t)
    /\ loop[t].pc = "err_send"
    /\ loop' = [loop EXCEPT ![t] = Done(loop[t], "error")]
    /\ UNCHANGED <<config, monitoring_tasks, handler, nreg, lastReg, watch, fetch>>

\* asyncio.sleep(8) returned: the reload.
Wake(t) ==
    /\ Runnable(t)
    /\ loop[t].pc = "sleep"
    /\ loop' = [loop EXCEPT ![t] =
                   SeeReload(loop[t], Reload(loop[t], config[loop[t].sym]))]
    /\ UNCHANGED <<config, monitoring_tasks, handler, nreg, lastReg, watch, fetch>>

\* CancelledError is thrown into the task at its await: "except CancelledError: pass".
DeliverCancel(t) ==
    /\ loop[t].pc = "cancelling"
    /\ loop' = [loop EXCEPT ![t] = Done(loop[t], "cancelled")]
    /\ UNCHANGED <<config, monitoring_tasks, handler, nreg, lastReg, watch, fetch>>

----------------------------------------------------------------------------
\* handle_message: a registration "token_name X Y".

Idle == [pc |-> "idle", token |-> "", low |-> 0, high |-> 0, id |-> 0]

\* A variant that lets a band with low = high through.
InvalidBand_Strict(low, high) == low > high

\* "Validate low < high".
InvalidBand(low, high) == low >= high

\* "Check if token exists in mapping".
UnknownSymbol(token) == token \notin Registry

Rejected(token, low, high) == InvalidBand(low, high) \/ UnknownSymbol(token)

\* A variant that starts the new task without stopping the existing one.
CancelExisting_None(token) == loop

\* A variant that stops the existing task only while it is in its delay.
CancelExisting_InDelayOnly(token) ==
    LET t == monitoring_tasks[token]
    IN IF t # 0 /\ loop[t].pc = "sleep"
       THEN [loop EXCEPT ![t] = [Done(loop[t], "") EXCEPT !.pc = "cancelling"]]
       ELSE loop

\* "Stop existing monitoring task for this token if any": Task.cancel().  A
\* finished task ignores it; a pending one gets CancelledError at its await,
\* whatever it awaits, and never reads its locals again.
CancelExisting(token) ==
    LET t == monitoring_tasks[token]
    IN IF t # 0 /\ loop[t].pc # "done"
       THEN [loop EXCEPT ![t] = [Done(loop[t], "") EXCEPT !.pc = "cancelling"]]
       ELSE loop

\* parse_command returned None: the "Invalid format" reply is awaited.
HandleMalformed ==
    /\ handler.pc = "idle"
    /\ handler' = [Idle EXCEPT !.pc = "reply_err"]
    /\ UNCHANGED <<config, monitoring_tasks, loop, nreg, lastReg, watch, fetch>>

\* handle_message from its start to its first await, for a parsed message.
HandleMessage(token, low, high) ==
    /\ handler.pc = "idle"
    /\ IF Rejected(token, low, high)
       THEN /\ handler' = [Idle EXCEPT !.pc = "reply_err", !.token = token,
                                       !.low = low, !.high = high]
            /\ UNCHANGED <<config, monitoring_tasks, loop, nreg, lastReg, watch, fetch>>
       ELSE /\ nreg < MaxReg
            /\ config' = [config EXCEPT ![token] = Entry(low, high)]
            /\ loop' = CancelExisting(token)
            /\ nreg' = nreg + 1
            /\ lastReg' = [lastReg EXCEPT ![token] = nreg + 1]
            /\ handler' = [pc |-> "reply_ok", token |-> token, low |-> low,
                           high |-> high, id |-> nreg + 1]
            /\ UNCHANGED <<monitoring_tasks, watch, fetch>>

\* The reply returned: an error reply ends the handler; after the "Monitoring ..."
\* reply the task is created and stored.
ReplyDone ==
    /\ handler.pc \in {"reply_err", "reply_ok"}
    /\ IF handler.pc = "reply_ok"
       THEN /\ loop' = [loop EXCEPT ![handler.id] = NewLoop(handler.token)]
            /\ monitoring_tasks' = [monitoring_tasks EXCEPT ![handler.token] = handler.id]
       ELSE UNCHANGED <<loop, monitoring_tasks>>
    /\ handler' = Idle
    /\ UNCHANGED <<config, nreg, lastReg, watch, fetch>>

\* reply_text raised: the exception leaves handle_message.
ReplyFail ==
    /\ handler.pc \in {"reply_err", "reply_ok"}
    /\ handler' = Idle
    /\ UNCHANGED <<config, monitoring_tasks, loop, nreg, lastReg, watch, fetch>>

----------------------------------------------------------------------------
\* monitoring.json edited outside the bot.

\* A symbol's entry is removed.
RemoveEntry(sym) ==
    /\ config[sym].present
    /\ config' = [config EXCEPT ![sym] = NoEntry]
    /\ UNCHANGED <<monitoring_tasks, loop, handler, nreg, lastReg, watch, fetch>>

\* A symbol's band is replaced by another band with low < high.
UpdateEntry(sym, low, high) ==
    /\ config[sym].present
    /\ low < high
    /\ config[sym] # Entry(low, high)
    /\ config' = [config EXCEPT ![sym] = Entry(low, high)]
    /\ UNCHANGED <<monitoring_tasks, loop, handler, nreg, lastReg, watch, fetch>>

----------------------------------------------------------------------------
\* PriceFetcher (src/price_fetcher.py): one get_price call, followed request
\* by request.  A response is what requests.get and response.json() give:
\*   http   "error" (requests.get raises: transport error, timeout), "status"
\*          (status_code is not 200), "badjson" (response.json() raises), "ok"
\*   body   the JSON object, for "ok"
\* A field of a body holds None when its key is absent, NotNumber when its
\* value is one float() does not take, or a price.

\* The longest list of trading pairs in a body.
MaxPairs == 2

\* What an expression gives when it raises instead of giving a value.
Raise == -2
NotNumber == -3

PriceVals == {1, 2}
FieldVals == {None, NotNumber} \cup PriceVals
LiqVals == {1, 2}

\* The chain argument: token_mapping.json may spell it in any case, or hold
\* a value that is no string.
NotAString == "(null)"
ChainArgs == {"solana", "Solana", "sui", "ethereum", NotAString}
Lower(chain) == IF chain = "Solana" THEN "solana" ELSE chain

\* float(v)
Float(v) == IF v = NotNumber THEN Raise ELSE v

\* "except Exception: ..." (or a bare except) followed by "return None".
Catch(v) == IF v = Raise THEN None ELSE v

\* requests.get, the status check and response.json() around the use v of the payload.
OnPayload(r, v) ==
    IF r.http \in {"error", "badjson"} THEN Raise
    ELSE IF r.http = "status" THEN None
    ELSE v

SeqsUpTo(S, n) == UNION {[1..k -> S] : k \in 0..n}

\* Jupiter: {"data": {address: {"price": ...}}}
JupiterBodies ==
    {[data |-> FALSE, listed |-> FALSE, price |-> None],
     [data |-> TRUE, listed |-> FALSE, price |-> None]}
    \cup {[data |-> TRUE, listed |-> TRUE, price |-> v] : v \in FieldVals}

fetch_from_jupiter(r) ==
    Catch(OnPayload(r,
        IF r.body.data /\ r.body.listed /\ r.body.price # None
        THEN Float(r.body.price)
        ELSE None))

\* Birdeye: {"data": {"value": ...}}
BirdeyeBodies ==
    {[data |-> FALSE, value |-> None]}
    \cup {[data |-> TRUE, value |-> v] : v \in FieldVals}

fetch_from_birdeye(r) ==
    Catch(OnPayload(r,
        IF r.body.data /\ r.body.value # None
        THEN Float(r.body.value)
        ELSE None))

\* DexScreener: {"pairs": [{"chainId", "liquidity": {"usd"}, "priceUsd", "priceNative"}, ...]},
\* the pairs of the address on every chain ("pairs" may be null or missing).
PairChains == {"solana", "ethereum"}
ScreenerPairs ==
    {q \in [chainId : PairChains, liquidity : LiqVals,
            priceUsd : FieldVals, priceNative : BOOLEAN] :
        q.priceUsd # None => q.priceNative}
ScreenerBodies ==
    {[pairs_key |-> k, pairs |-> <<>>] : k \in {"absent", "null"}}
    \cup {[pairs_key |-> "list", pairs |-> ps] : ps \in SeqsUpTo(ScreenerPairs, MaxPairs)}

\* sorted(pairs, key=liquidity, reverse=True)[0]: the first of the pairs
\* with the highest liquidity (the sort is stable).
TopPair(pairs) ==
    LET i == CHOOSE i \in 1..Len(pairs) :
                 /\ \A j \in 1..Len(pairs) : pairs[j].liquidity <= pairs[i].liquidity
                 /\ \A j \in 1..(i - 1) : pairs[j].liquidity < pairs[i].liquidity
    IN pairs[i]

\* chain gives chain_id, which the request and the choice of the pair do not use.
fetch_from_dexscreener(r, chain) ==
    Catch(OnPayload(r,
        IF r.body.pairs_key = "null" THEN Raise
        ELSE IF r.body.pairs_key = "list" /\ Len(r.body.pairs) > 0
        THEN LET pair == TopPair(r.body.pairs)
             IN IF pair.priceUsd # None THEN Float(pair.priceUsd)
                ELSE IF pair.priceNative THEN 0
                ELSE None
        ELSE None))

\* DexTools: a body of no fixed shape.  A level (the "data" object, the body
\* itself, the "result" object) is absent, no object ("other"), or an object
\* with at most one of the price keys.
PriceKeys == {"price", "priceUSD", "priceUsd"}
DataKeys == {"price", "priceUSD", "priceUsd"}
TopKeys == {"price", "priceUSD", "priceUsd"}
ResultKeys == {"price", "priceUSD"}
NoLevel == [kind |-> "absent", key |-> "none", val |-> None]
BareBody == [kind |-> "dict", key |-> "none", val |-> None]
Levels(kinds) ==
    {[kind |-> k, key |-> "none", val |-> None] : k \in kinds}
    \cup {[kind |-> "dict", key |-> y, val |-> v] :
             y \in PriceKeys, v \in FieldVals \ {None}}
ToolsPairs ==
    [liquidity : LiqVals, priceUsd : FieldVals, price : {None} \cup PriceVals]
\* Bodies of every shape, with no pair list or one of a single pair, and
\* bodies that hold nothing but a pair list.
ToolsBodies ==
    {[data |-> d, top |-> t, result |-> x, pairs_key |-> k, pairs |-> <<>>] :
        d \in Levels({"absent", "other", "dict"}), t \in Levels({"dict"}),
        x \in Levels({"absent", "other", "dict"}), k \in {"absent", "other"}}
    \cup {[data |-> d, top |-> t, result |-> x, pairs_key |-> "list", pairs |-> <<q>>] :
        d \in Levels({"absent", "other", "dict"}), t \in Levels({"dict"}),
        x \in Levels({"absent", "other", "dict"}),
        q \in {q \in ToolsPairs : q.liquidity \in PriceVals /\ q.priceUsd = q.liquidity
                                     /\ q.price = None}}
    \cup {[data |-> NoLevel, top |-> BareBody, result |-> NoLevel,
           pairs_key |-> "list", pairs |-> ps] : ps \in SeqsUpTo(ToolsPairs, MaxPairs)}

\* "if key in level: return float(level[key])" for the keys probed at a level.
LevelPrice(lv, keys) ==
    IF lv.kind = "dict" /\ lv.key \in keys THEN Float(lv.val) ELSE None

\* The pair the extraction reads.
FirstPair(pairs) == pairs[1]

\* The try block of _extract_price_from_response.
ExtractTry(body) ==
    LET d == LevelPrice(body.data, DataKeys)
        t == LevelPrice(body.top, TopKeys)
        x == LevelPrice(body.result, ResultKeys)
    IN IF d # None THEN d
       ELSE IF t # None THEN t
       ELSE IF x # None THEN x
       ELSE IF body.pairs_key = "list" /\ Len(body.pairs) > 0
            THEN LET pair == FirstPair(body.pairs)
                 IN IF pair.priceUsd # None THEN Float(pair.priceUsd)
                    ELSE IF pair.price # None THEN Float(pair.price)
                    ELSE None
            ELSE None

extract_price_from_response(body) == Catch(ExtractTry(body))

\* One pass of "for url in endpoints" of _fetch_from_dextools.
fetch_from_dextools(r, chain) ==
    Catch(OnPayload(r, extract_price_from_response(r.body)))

\* _fetch_solana_price, _fetch_sui_price, _fetch_evm_price: the sources in
\* the order they are called.
fetch_solana_price == <<"jupiter", "dexscreener", "dextools", "birdeye">>
fetch_sui_price == <<"dexscreener", "dextools">>
fetch_evm_price == <<"dexscreener", "dextools">>

\* get_price's choice by chain.
SourceOrder(chain) ==
    IF chain = "solana" THEN fetch_solana_price
    ELSE IF chain = "sui" THEN fetch_sui_price
    ELSE fetch_evm_price

Sources == {"jupiter", "dexscreener", "dextools", "birdeye"}

\* The requests a source makes at most (the DexTools endpoints).
Endpoints(src) == IF src = "dextools" THEN 2 ELSE 1

NoBody == [pairs_key |-> "absent"]
NoResp == [http |-> "none", body |-> NoBody]

Bodies(src) ==
    IF src = "jupiter" THEN JupiterBodies
    ELSE IF src = "birdeye" THEN BirdeyeBodies
    ELSE IF src = "dexscreener" THEN ScreenerBodies
    ELSE ToolsBodies

Responses(src) ==
    {[http |-> h, body |-> NoBody] : h \in {"error", "status", "badjson"}}
    \cup {[http |-> "ok", body |-> b] : b \in Bodies(src)}

\* What the request of a source gives for response r.
SourceValue(src, chain, r) ==
    IF src = "jupiter" THEN fetch_from_jupiter(r)
    ELSE IF src = "birdeye" THEN fetch_from_birdeye(r)
    ELSE IF src = "dexscreener" THEN fetch_from_dexscreener(r, chain)
    ELSE fetch_from_dextools(r, chain)

\* A response that is a failure of its source: a transport error, a
\* non-success status, a malformed payload, or no price field; a price field
\* that holds no number is malformed.  The price field of Jupiter is the
\* address's price, of Birdeye the value, of DexScreener the priceUsd of a
\* pair of the highest liquidity, of DexTools any price field of the body or
\* of a pair.  (Observation only: used by allFailed and the properties.)
NoQuote(src, r) ==
    \/ r.http # "ok"
    \/ /\ src = "jupiter"
       /\ ~(r.body.data /\ r.body.listed /\ r.body.price \in PriceVals)
    \/ /\ src = "birdeye"
       /\ ~(r.body.data /\ r.body.value \in PriceVals)
    \/ /\ src = "dexscreener"
       /\ ~(/\ r.body.pairs_key = "list"
            /\ \E i \in 1..Len(r.body.pairs) :
                  /\ \A j \in 1..Len(r.body.pairs) :
                        r.body.pairs[j].liquidity <= r.body.pairs[i].liquidity
                  /\ r.body.pairs[i].priceUsd \in PriceVals)
    \/ /\ src = "dextools"
       /\ ~(\/ \E lv \in {r.body.data, r.body.top, r.body.result} :
                  lv.kind = "dict" /\ lv.key \in PriceKeys /\ lv.val \in PriceVals
            \/ /\ r.body.pairs_key = "list"
               /\ \E i \in 1..Len(r.body.pairs) :
                     \/ r.body.pairs[i].priceUsd \in PriceVals
                     \/ r.body.pairs[i].price \in PriceVals)

\* The get_price call:
\*   pc         "idle" (none), "start", "call" (a request is due), "got" (its
\*              response has been used), "done"
\*   invoked    the sources called so far, and ep the requests made by the last
\*   resp, ret  the response of the last request and what the source made of it
\*   result     what get_price returned
\*   allFailed  every response so far was a failure of its source (history)
NoFetch ==
    [pc |-> "idle", chain |-> "", invoked |-> <<>>, ep |-> 0,
     resp |-> NoResp, ret |-> None, result |-> None, allFailed |-> TRUE]

botVars == <<config, monitoring_tasks, loop, handler, nreg, lastReg, watch>>

\* The source of the request that is due.
NextSource(f) ==
    IF f.invoked # <<>> /\ f.ep < Endpoints(f.invoked[Len(f.invoked)])
    THEN f.invoked[Len(f.invoked)]
    ELSE SourceOrder(f.chain)[Len(f.invoked) + 1]

\* get_price up to the first request: chain.lower() and the choice by chain.
GetPrice ==
    /\ fetch.pc = "start"
    /\ fetch' = IF fetch.chain = NotAString
                THEN [fetch EXCEPT !.pc = "done", !.result = Catch(Raise)]
                ELSE [fetch EXCEPT !.pc = "call", !.chain = Lower(fetch.chain)]
    /\ UNCHANGED botVars

\* The responses the request that is due may get.
DueResponses ==
    IF fetch.pc = "call" THEN Responses(NextSource(fetch)) ELSE {}

\* The request that is due gets response r, and the source uses it.
Request(r) ==
    /\ fetch.pc = "call"
    /\ LET src == NextSource(fetch)
           again == fetch.invoked # <<>> /\ src = fetch.invoked[Len(fetch.invoked)]
                    /\ fetch.ep < Endpoints(src)
       IN fetch' = [fetch EXCEPT
                       !.pc = "got",
                       !.invoked = IF again THEN @ ELSE Append(@, src),
                       !.ep = IF again THEN @ + 1 ELSE 1,
                       !.resp = r,
                       !.ret = SourceValue(src, fetch.chain, r),
                       !.allFailed = @ /\ NoQuote(src, r)]
    /\ UNCHANGED botVars

\* "if price is not None: return price": the call returns, or goes on to
\* the next endpoint or source, or returns None after the last.
Advance ==
    /\ fetch.pc = "got"
    /\ LET src == fetch.invoked[Len(fetch.invoked)]
           f == [fetch EXCEPT !.resp = NoResp, !.ret = None]
       IN fetch' =
             IF fetch.ret # None
             THEN [f EXCEPT !.pc = "done", !.result = fetch.ret]
             ELSE IF fetch.ep < Endpoints(src)
                     \/ Len(fetch.invoked) < Len(SourceOrder(fetch.chain))
                  THEN [f EXCEPT !.pc = "call"]
                  ELSE [f EXCEPT !.pc = "done", !.result = None]
    /\ UNCHANGED botVars

ResolverInit ==
    /\ config = [s \in Registry |-> NoEntry]
    /\ monitoring_tasks = [s \in Registry |-> 0]
    /\ loop = [t \in TaskIds |-> NoLoop]
    /\ handler = Idle
    /\ nreg = 0
    /\ lastReg = [s \in Registry |-> 0]
    /\ watch = FALSE
    /\ fetch \in {[NoFetch EXCEPT !.pc = "start", !.chain = c] : c \in ChainArgs}

ResolverNext ==
    \/ GetPrice
    \/ \E r \in DueResponses : Request(r)
    \/ Advance

ResolverSpec == ResolverInit /\ [][ResolverNext]_vars

----------------------------------------------------------------------------
\* The bot: the handler, the monitor tasks and the configuration store.
\* The symbols of the registry are treated alike; monitoring.json is edited
\* from outside for one of them.

Init ==
    /\ config = [s \in Registry |-> NoEntry]
    /\ monitoring_tasks = [s \in Registry |-> 0]
    /\ loop = [t \in TaskIds |-> NoLoop]
    /\ handler = Idle
    /\ nreg = 0
    /\ lastReg = [s \in Registry |-> 0]
    /\ watch = FALSE
    /\ fetch = NoFetch

Next ==
    \/ HandleMalformed
    \/ \E token \in TokenNames, low \in SysLows, high \in SysHighs :
           HandleMessage(token, low, high)
    \/ ReplyDone
    \/ ReplyFail
    \/ RemoveEntry("kori")
    \/ \E t \in TaskIds : StartUp(t)
    \/ \E t \in TaskIds : StartUpFails(t)
    \/ \E t \in TaskIds, p \in SysPrices \cup {None} : Cycle(t, p)
    \/ \E t \in TaskIds : AckDone(t)
    \/ \E t \in TaskIds : NotifyDone(t)
    \/ \E t \in TaskIds : SendFail(t)
    \/ \E t \in TaskIds : ErrSendDone(t)
    \/ \E t \in TaskIds : Wake(t)
    \/ \E t \in TaskIds : DeliverCancel(t)

Spec == Init /\ [][Next]_vars

----------------------------------------------------------------------------
\* One monitor loop on its own: the task of the first accepted registration,
\* for any band, fed every quote.

TrackerInit ==
    \E low, high \in BandVals :
        /\ low < high
        /\ config = [s \in Registry |-> IF s = "kori" THEN Entry(low, high) ELSE NoEntry]
        /\ monitoring_tasks = [s \in Registry |-> IF s = "kori" THEN 1 ELSE 0]
        /\ loop = [t \in TaskIds |-> IF t = 1 THEN NewLoop("kori") ELSE NoLoop]
        /\ handler = Idle
        /\ nreg = 1
        /\ lastReg = [s \in Registry |-> IF s = "kori" THEN 1 ELSE 0]
        /\ watch = TRUE
        /\ fetch = NoFetch

TrackerNext ==
    \/ RemoveEntry("kori")
    \/ \E low, high \in BandVals : UpdateEntry("kori", low, high)
    \/ StartUp(1)
    \/ StartUpFails(1)
    \/ \E p \in Prices \cup {None} : Cycle(1, p)
    \/ AckDone(1)
    \/ NotifyDone(1)
    \/ SendFail(1)
    \/ ErrSendDone(1)
    \/ Wake(1)

TrackerSpec == TrackerInit /\ [][TrackerNext]_vars

----------------------------------------------------------------------------
\* Properties of the threshold tracker, under TrackerSpec.

\* The loop before and after a step, where the step evaluated a sample.
Evaluated == loop[1].dec = "none" /\ loop'[1].dec # "none"

\* The samples evaluated so far (the first sample waits for the "current
\* price" send before it is evaluated).
EvaluatedCount(l) == IF l.pc = "ack_send" THEN l.scen - 1 ELSE l.scen

ScenarioFires == {<<0, "high">>, <<3, "low">>, <<6, "high">>}

\* C1: while the samples of a loop with an unchanged band low < high follow
\* [above, above, inside, below, below, inside, above], the threshold
\* messages started are exactly "high" at sample 0, "low" at sample 3 and
\* "high" at sample 6, among the samples evaluated so far.
C1_ScenarioFiresAt036 ==
    LET l == loop[1]
    IN (l.scen > 0 /\ l.low_threshold < l.high_threshold)
       => l.fired = {e \in ScenarioFires : e[1] < EvaluatedCount(l)}

\* C1's case: the seventh sample of the scenario has started the third message.
C1_Witness ==
    LET l == loop[1]
    IN l.scen = Len(Scenario) /\ l.pc = "high_send" /\ l.fired = ScenarioFires

\* C2: under an unchanged band low < high, the evaluation of a sample starts
\* "reached high" iff the sample is >= high and it is the first sample or the
\* previous sample was < high, and "reached low" iff the sample is <= low and
\* it is the first sample or the previous sample was > low.
C2_NotifyIffCrossing ==
    LET l == loop[1]
    IN (l.steady /\ l.low_threshold < l.high_threshold /\ l.dec # "none")
       => /\ (l.dec = "high") <=>
                (l.cur >= l.high_threshold
                 /\ (l.prev = None \/ l.prev < l.high_threshold))
          /\ (l.dec = "low") <=>
                (l.cur <= l.low_threshold
                 /\ (l.prev = None \/ l.prev > l.low_threshold))

\* C2's case: a sample at or below low right after one at or above high has
\* started "reached low".
C2_Witness ==
    LET l == loop[1]
    IN /\ l.steady /\ l.low_threshold < l.high_threshold
       /\ l.pc = "low_send" /\ l.dec = "low"
       /\ l.prev # None /\ l.prev >= l.high_threshold

\* C3: an evaluation with price <= low starts "reached low" exactly when
\* low_notified is false or the previous price was above low; one with
\* price >= high (and not <= low: the rule is the else-branch) starts
\* "reached high" exactly when high_notified is false or the previous price
\* was below high; when none is started the latches are unchanged, and once
\* the message is sent its latch is set and the other one cleared.
C3_LatchRule ==
    [][LET l == loop[1]
           m == loop'[1]
       IN /\ (Evaluated /\ m.cur <= m.low_threshold)
             => /\ (m.dec = "low") <=>
                      (~l.low_notified
                       \/ (m.prev # None /\ m.prev > m.low_threshold))
                /\ m.dec # "high"
                /\ m.dec = "quiet"
                      => (m.low_notified = l.low_notified
                          /\ m.high_notified = l.high_notified)
          /\ (Evaluated /\ m.cur > m.low_threshold /\ m.cur >= m.high_threshold)
             => /\ (m.dec = "high") <=>
                      (~l.high_notified
                       \/ (m.prev # None /\ m.prev < m.high_threshold))
                /\ m.dec # "low"
                /\ m.dec = "quiet"
                      => (m.low_notified = l.low_notified
                          /\ m.high_notified = l.high_notified)
          /\ (l.pc = "low_send" /\ m.pc = "sleep")
             => (m.low_notified /\ ~m.high_notified)
          /\ (l.pc = "high_send" /\ m.pc = "sleep")
             => (m.high_notified /\ ~m.low_notified)
      ]_vars

\* C3's case: "reached low" was sent for a sample that followed one at or
\* above high, whose latch is now cleared.
C3_Witness ==
    LET l == loop[1]
    IN /\ l.pc = "sleep" /\ l.dec = "low"
       /\ l.low_notified /\ ~l.high_notified
       /\ l.prev # None /\ l.prev >= l.high_threshold /\ l.prev > l.low_threshold

\* C4: an evaluation with low < price < high starts no message; it clears
\* low_notified if the previous price was <= low, high_notified if the
\* previous price was >= high, and changes no latch otherwise.
C4_InsideBand ==
    [][LET l == loop[1]
           m == loop'[1]
       IN (Evaluated /\ m.low_threshold < m.cur /\ m.cur < m.high_threshold)
          => /\ m.dec = "quiet"
             /\ m.pc = "sleep"
             /\ m.low_notified =
                   (IF m.prev # None /\ m.prev <= m.low_threshold
                    THEN FALSE ELSE l.low_notified)
             /\ m.high_notified =
                   (IF m.prev # None /\ m.prev >= m.high_threshold
                    THEN FALSE ELSE l.high_notified)
      ]_vars

\* C4's case: a sample inside the band was evaluated after one at or below
\* low, and low_notified is clear.
C4_Witness ==
    LET l == loop[1]
    IN /\ l.pc = "sleep" /\ l.dec = "quiet"
       /\ l.low_threshold < l.cur /\ l.cur < l.high_threshold
       /\ l.prev # None /\ l.prev <= l.low_threshold
       /\ ~l.low_notified /\ ~l.high_notified

\* C8: a reload that finds another band than the one last used clears both
\* latches and puts the new band in force, and the next sample evaluated
\* starts a message whenever it is at or past a threshold of the new band.
C8_BandChangeResets ==
    [][LET l == loop[1]
           m == loop'[1]
           e == config[l.sym]
       IN /\ (l.pc = "sleep" /\ m.pc = "top"
              /\ (GetField(e.low) # l.low_threshold
                  \/ GetField(e.high) # l.high_threshold))
             => /\ ~m.low_notified /\ ~m.high_notified
                /\ m.low_threshold = GetField(e.low)
                /\ m.high_threshold = GetField(e.high)
          /\ (Evaluated /\ l.fresh)
             => /\ m.cur <= m.low_threshold => m.dec = "low"
                /\ (m.cur > m.low_threshold /\ m.cur >= m.high_threshold)
                      => m.dec = "high"
      ]_vars

\* C8's case: after a band change, "reached high" is started for a sample
\* whose predecessor was already at or above the new high.
C8_Witness ==
    LET l == loop[1]
    IN /\ ~l.steady /\ l.pc = "high_send" /\ l.dec = "high"
       /\ l.prev # None /\ l.prev >= l.high_threshold

----------------------------------------------------------------------------
\* Properties of the loop's stop condition, under TrackerSpec.

\* C9: once the symbol's entry is removed, its loop ends at its next reload
\* by the clean exit: it starts no error report, and the step it takes from
\* the delay is the break.
C9_RemovedLoopExitsCleanly ==
    [][LET l == loop[1]
           m == loop'[1]
       IN (~config[l.sym].present /\ ~config'[l.sym].present /\ m # l)
          => /\ m.pc # "err_send"
             /\ l.pc = "sleep" => (m.pc = "done" /\ m.end = "break")
      ]_vars

\* C10: no message (current price, reached low, reached high) is started for
\* a symbol whose entry has been removed.
C10_NoMessageAfterRemoval ==
    [][LET l == loop[1]
           m == loop'[1]
       IN (m.pc \in SendPcs /\ m.pc # l.pc) => config[l.sym].present
      ]_vars

----------------------------------------------------------------------------
\* Properties of registration, under Spec.

\* The tasks of a symbol that may still run the loop's code.
ActiveLoops(sym) ==
    {t \in TaskIds : loop[t].sym = sym /\ Runnable(t)}

\* C5: a request with low >= high or with a symbol that is not in the
\* registry changes neither the configuration store nor any task, from its
\* receipt to the end of its handler.
C5_RejectedHasNoEffect ==
    [][/\ (handler.pc = "idle" /\ handler'.pc # "idle"
           /\ (handler'.low >= handler'.high \/ handler'.token \notin Registry))
          => UNCHANGED <<config, monitoring_tasks, loop, nreg, lastReg>>
       /\ (handler.pc # "idle" /\ handler' # handler
           /\ (handler.low >= handler.high \/ handler.token \notin Registry))
          => UNCHANGED <<config, monitoring_tasks, loop, nreg, lastReg>>
      ]_vars

\* C5's case: a request with low >= high for a symbol of the registry whose
\* loop is running has been rejected, and the loop runs on.
C5_Witness ==
    /\ handler.pc = "reply_err"
    /\ handler.token \in Registry
    /\ handler.low >= handler.high
    /\ monitoring_tasks[handler.token] # 0
    /\ loop[monitoring_tasks[handler.token]].pc = "sleep"
    /\ config[handler.token].present

\* C6: at most one loop per symbol is active.
C6_OneLoopPerSymbol ==
    \A sym \in Registry : Cardinality(ActiveLoops(sym)) <= 1

\* C6's case: a symbol's loop was cancelled by a second registration, whose
\* loop is running.
C6_Witness ==
    \E t1, t2 \in TaskIds :
        /\ t1 # t2
        /\ loop[t1].sym = loop[t2].sym
        /\ loop[t1].pc = "done" /\ loop[t1].end = "cancelled"
        /\ loop[t2].pc = "sleep"
        /\ monitoring_tasks[loop[t2].sym] = t2

\* C7: a loop that a later registration for its symbol has superseded takes
\* no step but its end, and every message started for a symbol is started by
\* the loop of the symbol's latest registration, whose thresholds are those
\* of the stored band.
C7_SupersededLoopIsSilent ==
    [][\A t \in TaskIds :
          LET l == loop[t]
              m == loop'[t]
          IN /\ (l.pc # "none" /\ lastReg[l.sym] # t /\ m # l) => m.pc = "done"
             /\ (m.pc \in SendPcs /\ m.pc # l.pc)
                => /\ lastReg[l.sym] = t
                   /\ config[l.sym].present
                         => (m.low_threshold = config[l.sym].low
                             /\ m.high_threshold = config[l.sym].high)
      ]_vars

\* C7's case: the first loop of a symbol was cancelled while a send was in
\* flight or in its delay, and the loop of the second registration has
\* started a threshold message.
C7_Witness ==
    \E t1, t2 \in TaskIds :
        /\ t1 < t2
        /\ loop[t1].sym = loop[t2].sym
        /\ loop[t1].pc = "done" /\ loop[t1].end = "cancelled"
        /\ lastReg[loop[t2].sym] = t2
        /\ loop[t2].pc \in {"low_send", "high_send"}
        /\ config[loop[t2].sym].present
        /\ loop[t2].low_threshold = config[loop[t2].sym].low

----------------------------------------------------------------------------
\* Properties of the loop's cycle, under TrackerSpec.

\* C11: the "current price" acknowledgment of a loop is started on the
\* cycle that yields the loop's first successful quote, whatever the latches
\* and the band are, and on no other cycle: not on a cycle that follows a
\* successful quote, also after a band change.
C11_AckOnFirstQuoteOnly ==
    [][LET l == loop[1]
           m == loop'[1]
       IN /\ (l.pc = "top" /\ l.cur = None /\ m.cur # None) => m.pc = "ack_send"
          /\ (m.pc = "ack_send" /\ l.pc # "ack_send")
             => (l.pc = "top" /\ l.cur = None /\ m.cur # None)
          /\ (l.pc = "ack_send" /\ m.pc \in {"low_send", "high_send", "sleep"})
             => m.price_displayed
      ]_vars

\* C11's case: after the acknowledgment and a band change, a later sample
\* has started a threshold message and no second acknowledgment.
C11_Witness ==
    LET l == loop[1]
    IN /\ l.price_displayed /\ ~l.steady
       /\ l.prev # None /\ l.cur # None
       /\ l.pc \in {"low_send", "high_send"}

\* C18: a cycle without a quote goes from the call of get_price straight to
\* the delay: it starts no message and changes neither last_price nor a
\* latch nor the acknowledgment flag (nor anything else of the loop), and
\* the step after it is the reload that leads to the next cycle (or the
\* break, when the entry is gone).
C18_NoQuoteCycleIsSkipped ==
    [][LET l == loop[1]
           m == loop'[1]
       IN /\ (~l.skipped /\ m.skipped)
             => /\ l.pc = "top"
                /\ m = [l EXCEPT !.pc = "sleep", !.skipped = TRUE]
          /\ (l.skipped /\ m # l)
             => /\ l.pc = "sleep"
                /\ IF config[l.sym].present
                   THEN /\ m.pc = "top"
                        /\ m.last_price = l.last_price
                        /\ m.price_displayed = l.price_displayed
                   ELSE m.pc = "done" /\ m.end = "break"
      ]_vars

\* C18's case: a cycle got no quote while a latch was set and a previous
\* price was known; the loop is in its delay with both unchanged.
C18_Witness ==
    LET l == loop[1]
    IN /\ l.skipped /\ l.pc = "sleep"
       /\ l.last_price # None /\ l.high_notified /\ l.price_displayed

\* C16: a send that fails does not stop the loop: whatever step the loop
\* takes from a send in flight, it goes on to a threshold send or the delay.
C16_SendFailureKeepsLoop ==
    [][LET l == loop[1]
           m == loop'[1]
       IN (l.pc \in SendPcs /\ m # l)
          => m.pc \in {"low_send", "high_send", "sleep"}
      ]_vars

\* C20: every band a sample has been evaluated against has low < high.
C20_EvaluatedBandIsProper ==
    LET l == loop[1]
    IN l.dec # "none" => l.low_threshold < l.high_threshold

----------------------------------------------------------------------------
\* Properties of the tasks and of registration, under Spec.

\* C17: a loop that fails ends through the handler at its boundary (never
\* by an exception that leaves the task), starts at most one error report
\* (after it the task only ends or is cancelled), and its failure changes
\* no other task.
C17_FailureCaughtAtBoundary ==
    [][\A t \in TaskIds :
          LET l == loop[t]
              m == loop'[t]
          IN /\ m.end # "crashed"
             /\ (l.pc = "err_send" /\ m # l) => m.pc \in {"done", "cancelling"}
             /\ (m # l /\ (m.pc = "err_send" \/ m.end \in {"error", "crashed"}))
                => \A u \in TaskIds \ {t} : loop'[u] = loop[u]
      ]_vars

\* C19: the step that accepts a registration writes the symbol's entry and
\* no other, and leaves no task of the symbol running the loop's code; the
\* task created for it, and the loop once its start-up is done, have both
\* latches false, no previous price and the acknowledgment not sent, under
\* the band stored (the same as before or not).
C19_RegistrationResets ==
    [][/\ nreg' # nreg
          => /\ config' = [config EXCEPT
                             ![handler'.token] = Entry(handler'.low, handler'.high)]
             /\ \A t \in TaskIds :
                   loop'[t].sym = handler'.token
                      => loop'[t].pc \in {"none", "done", "cancelling"}
       /\ \A t \in TaskIds :
             LET l == loop[t]
                 m == loop'[t]
             IN /\ (l.pc = "none" /\ m.pc # "none")
                   => /\ m.pc = "new" /\ m.sym = handler.token
                      /\ ~m.low_notified /\ ~m.high_notified
                      /\ m.last_price = None /\ ~m.price_displayed
                /\ (l.pc = "new" /\ m.pc = "top")
                   => /\ ~m.low_notified /\ ~m.high_notified
                      /\ m.last_price = None /\ ~m.price_displayed
                      /\ config[l.sym].present
                            => (m.low_threshold = config[l.sym].low
                                /\ m.high_threshold = config[l.sym].high)
      ]_vars

\* C19's case: a symbol registered again while its loop had a latch set; the
\* first loop was cancelled and the second one has done its start-up with
\* clear latches, no previous price and no acknowledgment sent.
C19_Witness ==
    \E t1, t2 \in TaskIds :
        /\ t1 < t2
        /\ loop[t1].sym = loop[t2].sym
        /\ loop[t1].pc = "done" /\ loop[t1].end = "cancelled"
        /\ loop[t2].pc = "top"
        /\ ~loop[t2].low_notified /\ ~loop[t2].high_notified
        /\ loop[t2].last_price = None /\ ~loop[t2].price_displayed
        /\ config[loop[t2].sym] = Entry(loop[t2].low_threshold, loop[t2].high_threshold)

----------------------------------------------------------------------------
\* Properties of the price resolution, under ResolverSpec.

\* The order of the sources by chain, as specified.
ClaimedOrder(chain) ==
    IF chain = "solana"
    THEN <<"jupiter", "dexscreener", "dextools", "birdeye">>
    ELSE <<"dexscreener", "dextools">>

IsPrefix(s, t) == Len(s) <= Len(t) /\ \A i \in 1..Len(s) : s[i] = t[i]

\* The step that follows a response: get_price returns, or goes on.
Decides == fetch.pc = "got" /\ fetch'.pc # "got"

CurrentSource == fetch.invoked[Len(fetch.invoked)]

\* C12: the sources are called in the chain's order; get_price returns a
\* value only when the source just called had a usable price, and the value
\* is that source's; it goes on to another request only when the source
\* gave nothing, and returns None only when every source of the chain has
\* been called and the last gave nothing.
C12_FirstUsableSourceWins ==
    [][Decides
       => /\ IsPrefix(fetch.invoked, ClaimedOrder(fetch.chain))
          /\ (fetch'.pc = "done" /\ fetch'.result # None)
             => (~NoQuote(CurrentSource, fetch.resp) /\ fetch'.result = fetch.ret)
          /\ fetch'.pc = "call" => fetch.ret = None
          /\ (fetch'.pc = "done" /\ fetch'.result = None)
             => (fetch.invoked = ClaimedOrder(fetch.chain) /\ fetch.ret = None)
      ]_vars

\* C13: when every response of a get_price call was a failure of its
\* source, the call returns None (and no exception: Raise is not a result).
C13_AllFailedGivesNone ==
    (fetch.pc = "done" /\ fetch.allFailed) => fetch.result = None

\* C14: a source whose response is a failure gives no value, and the call
\* does not return on it: it goes on to the next request while one is left.
C14_FailedSourceIsPassed ==
    [][(Decides /\ NoQuote(CurrentSource, fetch.resp))
       => /\ fetch.ret = None
          /\ ~(fetch'.pc = "done" /\ fetch'.result # None)
          /\ (fetch.ep < Endpoints(CurrentSource)
              \/ Len(fetch.invoked) < Len(ClaimedOrder(fetch.chain)))
             => fetch'.pc = "call"
      ]_vars

\* A body all of whose price fields hold numbers.
WellFormed(body) ==
    /\ \A lv \in {body.data, body.top, body.result} : lv.val # NotNumber
    /\ \A i \in 1..Len(body.pairs) : body.pairs[i].priceUsd # NotNumber

\* The price field of a pair.
PairPrice(q) == IF q.priceUsd # None THEN q.priceUsd ELSE q.price

\* What the extraction is specified to give for a well-formed body: the
\* price field of the nested data, else of the top level, else of the nested
\* result, else of a pair of the highest liquidity in the list.
ClaimedExtract(body) ==
    LET field(lv, keys) ==
            IF lv.kind = "dict" /\ lv.key \in keys THEN lv.val ELSE None
        d == field(body.data, DataKeys)
        t == field(body.top, TopKeys)
        x == field(body.result, ResultKeys)
        n == Len(body.pairs)
    IN IF d # None THEN {d}
       ELSE IF t # None THEN {t}
       ELSE IF x # None THEN {x}
       ELSE IF body.pairs_key = "list" /\ n > 0
            THEN {PairPrice(body.pairs[i]) :
                     i \in {i \in 1..n : \A j \in 1..n :
                               body.pairs[j].liquidity <= body.pairs[i].liquidity}}
            ELSE {None}

\* C15: for a well-formed DexTools body the extraction gives the price
\* field of the first shape present, in the order nested data, top level,
\* nested result, pair list, and for the pair list the price of a pair of
\* the highest liquidity, wherever it is in the list.
C15_ExtractionOrder ==
    (/\ fetch.pc = "got"
     /\ CurrentSource = "dextools"
     /\ fetch.resp.http = "ok"
     /\ WellFormed(fetch.resp.body))
    => fetch.ret \in ClaimedExtract(fetch.resp.body)

\* C21: a price the DexScreener request gives is the price of a pair on the
\* chain passed to get_price.
C21_ScreenerQuoteOnChain ==
    (/\ fetch.pc = "got"
     /\ CurrentSource = "dexscreener"
     /\ fetch.ret \in PriceVals)
    => \E i \in 1..Len(fetch.resp.body.pairs) :
          /\ fetch.resp.body.pairs[i].chainId = fetch.chain
          /\ fetch.resp.body.pairs[i].priceUsd = fetch.ret

----------------------------------------------------------------------------
\* Further properties of the loop and of registration.

\* C22: low_notified and high_notified of a loop are never both true
\* (under TrackerSpec: every sequence of samples, cycles without a quote,
\* band changes and removals).
C22_LatchesExclusive ==
    ~(loop[1].low_notified /\ loop[1].high_notified)

\* C22's case: "reached high" was sent for a sample that followed one at or
\* below low under the same band: the low latch, set before, is clear.
C22_Witness ==
    LET l == loop[1]
    IN /\ l.steady /\ l.low_threshold < l.high_threshold
       /\ l.pc = "sleep" /\ l.dec = "high"
       /\ l.prev # None /\ l.prev <= l.low_threshold
       /\ l.high_notified /\ ~l.low_notified

\* C23: the handler of an accepted registration ends (its reply returned or
\* raised) with the symbol's new task created and recorded in
\* monitoring_tasks (under Spec).
C23_AcceptedStartsLoop ==
    [][(handler.pc = "reply_ok" /\ handler'.pc # "reply_ok")
       => /\ loop'[handler.id].pc = "new"
          /\ loop'[handler.id].sym = handler.token
          /\ monitoring_tasks'[handler.token] = handler.id
      ]_vars

====
